---- MODULE Spec2Model ----
(***************************************************************************)
(* The test harness of pulsar.apps.test.utils: the actor lifecycle mixin   *)
(* (ActorTestMixin), the asynchronous assertion proxy (AsyncAssert) and    *)
(* the reachability probe (check_server).                                  *)
(***************************************************************************)
EXTENDS Integers, Sequences, FiniteSets, TLC

\* Bounds of the model.
MaxActors == 2      \* spawn_actor calls made by one test body
MaxStopCalls == 1   \* explicit stop_actors calls made by one test body
MaxArgs == 2        \* handles passed to one explicit stop_actors call

VARIABLES
    pc,         \* position of the test: body, spawn_wait, stop_wait, teardown, teardown_wait, done
    outcome,    \* outcome of the test body: running, pass, fail, raise, cancelled
    hasSpawned, \* hasattr(self, '_spawned')
    spawned,    \* self._spawned, the tracked proxies in order
    nspawn,     \* spawn requests made so far
    actor,      \* runtime: state of each actor (none, requested, alive, failed)
    proxyOf,    \* runtime: the proxy each spawn future resolved to
    ad,         \* the future returned by pulsar.spawn in the current spawn_actor call
    sent,       \* runtime: 'stop' messages sent to each actor
    futs,       \* the futures returned by send(a, 'stop') in the current stop_actors call
    multi,      \* the combined future returned by multi_async in the current stop_actors call
    call,       \* the last mixin operation called and what it did (history)
    ret,        \* the proxy returned by the last successful spawn_actor
    stopCalls,  \* explicit stop_actors calls made so far
    spawnErr,   \* runtime: the exception each failed spawn future completed with
    escaped,    \* the exception that left the last mixin operation, if one did
    apc,        \* position of the assertion proxy call: idle, args_wait, result_wait, ar_wait, finished
    fw,         \* a forwarded assertion call: its arguments, their resolution, the invocation
    ar,         \* an assertRaises call: the expected error, the callable, what was raised
    aret,       \* what the proxy call returned or raised
    desc,       \* the AsyncAssert objects constructed for the instance, what each access returned
    ppc,        \* position of check_server: start, create, ping, finished
    pin,        \* check_server's surroundings: the actor context, the configured address
    purl,       \* the address given to create_store
    pev,        \* what new_event_loop, create_store and ping did
    pres,       \* what check_server returned, or the exception that left it
    unit,       \* a test object: its _test_timeout attribute and its skip mark
    applied,    \* the timeouts test_timeout has been applied with, in order (history)
    env,        \* the actor context: present or not, its concurrency mode
    tq,         \* the last get_test_timeout call: arguments, result, the unit before and after
    sk          \* the dont_run_with_thread call: the unit before and after

mixinVars == <<pc, outcome, hasSpawned, spawned, nspawn, actor, proxyOf, ad,
               sent, futs, multi, call, ret, stopCalls, spawnErr, escaped>>

assertVars == <<apc, fw, ar, aret, desc>>

probeVars == <<ppc, pin, purl, pev, pres>>

metaVars == <<unit, applied, env, tq, sk>>

vars == <<mixinVars, assertVars, probeVars, metaVars>>

\* The components are independent: each operation leaves the others alone.
MixinOnly == UNCHANGED <<assertVars, probeVars, metaVars>>
AssertOnly == UNCHANGED <<mixinVars, probeVars, metaVars>>
ProbeOnly == UNCHANGED <<mixinVars, assertVars, metaVars>>
MetaOnly == UNCHANGED <<mixinVars, assertVars, probeVars>>

Handles == 1..MaxActors

NoProxy == [h |-> 0, aid |-> 0, self |-> FALSE, cfg |-> FALSE]

NoCall == [op |-> "none", args |-> <<>>, before |-> <<>>, lazy |-> FALSE,
           all |-> <<>>, nsent |-> 0, sent0 |-> <<>>, complete |-> FALSE, req0 |-> 0]

\* Exceptions the runtime completes a spawn or a send with.
RuntimeErrs == {"RuntimeError", "OSError"}

\* An exception met by a handler that replaces it with a test failure.
HandledAsFailure(k) == "failureException"

\* No handler surrounds the waits of spawn_actor, stop_actors and the
\* forwarded assertions: an exception raised at one leaves the call as it is.
Unhandled(k) == k

Count(h, s) == Cardinality({i \in DOMAIN s : s[i] = h})

HandlesOf(s) == [i \in DOMAIN s |-> s[i].h]

\* Sequences over S of length 0..n
RECURSIVE SeqsUpTo(_, _)
SeqsUpTo(S, n) ==
    IF n = 0 THEN {<<>>}
    ELSE LET shorter == SeqsUpTo(S, n - 1)
         IN shorter \cup {Append(s, x) : s \in {t \in shorter : Len(t) = n - 1}, x \in S}

----------------------------------------------------------------------------
\* External collaborator: multi_async(list of futures), the combined future.
\* It completes once every future given to it has completed; an empty list
\* is complete at once.
multi_async(fs) ==
    [n |-> Len(fs), remaining |-> Len(fs),
     state |-> IF Len(fs) = 0 THEN "done" ELSE "pending", exc |-> "none"]

\* The done-callback multi_async runs when one of its futures completes.
multi_callback(m, fs, i) ==
    [m EXCEPT !.remaining = m.remaining - 1,
              !.exc = IF m.exc = "none" /\ fs[i] # "ok" THEN fs[i] ELSE m.exc,
              !.state = IF m.remaining - 1 > 0 THEN "pending"
                        ELSE IF \E j \in DOMAIN fs : fs[j] \notin {"pending", "ok"}
                        THEN "error"
                        ELSE "done"]

----------------------------------------------------------------------------
\* ActorTestMixin

\* A class-level list shared by every instance: first use is not empty.
all_spawned_shared ==
    IF hasSpawned THEN spawned ELSE <<[h |-> 1, aid |-> 1, self |-> TRUE, cfg |-> TRUE]>>

\* The all_spawned property: the tracked list, created empty on first use.
all_spawned == IF hasSpawned THEN spawned ELSE <<>>

\* Tracking at the front of the list instead of its end.
TrackFront(s, p) == <<p>> \o s

\* self.all_spawned.append(proxy)
Track(s, p) == Append(s, p)

\* The assertions before the suspension point.
PreAsserts(req) == req.aid # 0 /\ req.isFuture

\* The assertions after the suspension point.
PostAsserts(p, req) == p.aid = req.aid /\ p.self /\ p.cfg

\* Tracking only a proxy that passed the assertions on it.
TrackedAfterAsserts(s, p, req) == IF PostAsserts(p, req) THEN Track(s, p) ELSE s

\* The statements after the suspension point, in the order of the code: the
\* append comes first, the three assertions on the proxy follow it.
TrackedOnResume(s, p, req) == Track(s, p)

\* Stopping every tracked actor whatever the arguments are.
StopTargetsAll(args) == HandlesOf(all_spawned)

\* all = args or self.all_spawned
StopTargets(args) == IF Len(args) > 0 THEN args ELSE HandlesOf(all_spawned)

\* Serialized stopping: only the first target is sent 'stop' before waiting.
DispatchedFirst(all) == IF Len(all) = 0 THEN <<>> ELSE <<all[1]>>

\* [send(a, 'stop') for a in all]: the targets sent 'stop' before multi_async
\* is called.
Dispatched(all) == all

MixinInit ==
    /\ pc = "body"
    /\ outcome = "running"
    /\ hasSpawned = FALSE
    /\ spawned = <<>>
    /\ nspawn = 0
    /\ actor = [h \in Handles |-> "none"]
    /\ proxyOf = [h \in Handles |-> NoProxy]
    /\ ad = [h |-> 0, aid |-> 0, isFuture |-> FALSE]
    /\ sent = [h \in Handles |-> 0]
    /\ futs = <<>>
    /\ multi = multi_async(<<>>)
    /\ call = NoCall
    /\ ret = NoProxy
    /\ stopCalls = 0
    /\ spawnErr = [h \in Handles |-> "none"]
    /\ escaped = "none"

\* spawn_actor up to its suspension point: pulsar.spawn, the two assertions
\* on the returned future, then the wait on it.
SpawnCall ==
    /\ pc = "body"
    /\ nspawn < MaxActors
    /\ \E aid \in {0, nspawn + 1}, isFut \in BOOLEAN :
        LET h == nspawn + 1
            req == [h |-> h, aid |-> aid, isFuture |-> isFut]
        IN /\ nspawn' = h
           /\ actor' = [actor EXCEPT ![h] = "requested"]
           /\ ad' = req
           /\ call' = [NoCall EXCEPT !.op = "spawn", !.req0 = nspawn,
                                     !.before = IF hasSpawned THEN spawned ELSE <<>>]
           /\ IF PreAsserts(req)
              THEN pc' = "spawn_wait" /\ outcome' = outcome /\ escaped' = "none"
              ELSE pc' = "teardown" /\ outcome' = "fail" /\ escaped' = "failureException"
    /\ UNCHANGED <<hasSpawned, spawned, proxyOf, sent, futs, multi, ret, stopCalls,
                   spawnErr>>
    /\ MixinOnly

\* Runtime: a requested actor starts and its spawn future resolves to a proxy.
SpawnResolve(h) ==
    /\ actor[h] = "requested"
    /\ \E aid \in {0, h}, self \in BOOLEAN, cfg \in BOOLEAN :
        proxyOf' = [proxyOf EXCEPT ![h] = [h |-> h, aid |-> aid, self |-> self, cfg |-> cfg]]
    /\ actor' = [actor EXCEPT ![h] = "alive"]
    /\ UNCHANGED <<pc, outcome, hasSpawned, spawned, nspawn, ad, sent, futs, multi,
                   call, ret, stopCalls, spawnErr, escaped>>
    /\ MixinOnly

\* Runtime: the spawn fails and the spawn future completes with an exception.
SpawnFail(h) ==
    /\ actor[h] = "requested"
    /\ actor' = [actor EXCEPT ![h] = "failed"]
    /\ \E k \in RuntimeErrs : spawnErr' = [spawnErr EXCEPT ![h] = k]
    /\ UNCHANGED <<pc, outcome, hasSpawned, spawned, nspawn, proxyOf, ad, sent, futs,
                   multi, call, ret, stopCalls, escaped>>
    /\ MixinOnly

\* spawn_actor after its suspension point: track the proxy, then assert on it.
SpawnResume ==
    /\ pc = "spawn_wait"
    /\ actor[ad.h] = "alive"
    /\ LET proxy == proxyOf[ad.h]
       IN /\ spawned' = TrackedOnResume(all_spawned, proxy, ad)
          /\ hasSpawned' = TRUE
          /\ IF PostAsserts(proxy, ad)
             THEN pc' = "body" /\ ret' = proxy /\ outcome' = outcome /\ escaped' = "none"
             ELSE /\ pc' = "teardown" /\ ret' = ret /\ outcome' = "fail"
                  /\ escaped' = "failureException"
    /\ UNCHANGED <<nspawn, actor, proxyOf, ad, sent, futs, multi, call, stopCalls,
                   spawnErr>>
    /\ MixinOnly

\* The exception of a failed spawn is raised at the suspension point.
SpawnRaise ==
    /\ pc = "spawn_wait"
    /\ actor[ad.h] = "failed"
    /\ pc' = "teardown"
    /\ outcome' = "raise"
    /\ escaped' = Unhandled(spawnErr[ad.h])
    /\ UNCHANGED <<hasSpawned, spawned, nspawn, actor, proxyOf, ad, sent, futs, multi,
                   call, ret, stopCalls, spawnErr>>
    /\ MixinOnly

\* stop_actors(*args): send 'stop' to every target, combine the futures.
DoStop(op, args, next) ==
    LET all == StopTargets(args)
        out == Dispatched(all)
        fs == [i \in 1..Len(out) |-> "pending"]
    IN /\ sent' = [h \in Handles |-> sent[h] + Count(h, out)]
       /\ futs' = fs
       /\ multi' = multi_async(fs)
       /\ hasSpawned' = (hasSpawned \/ Len(args) = 0)
       /\ spawned' = IF Len(args) = 0 THEN all_spawned ELSE spawned
       /\ call' = [op |-> op, args |-> args,
                   before |-> IF hasSpawned THEN spawned ELSE <<>>,
                   lazy |-> ~hasSpawned /\ Len(args) = 0,
                   all |-> all, nsent |-> Len(out), sent0 |-> sent,
                   complete |-> multi_async(fs).state = "done", req0 |-> nspawn]
       /\ escaped' = "none"
       /\ pc' = next

\* The test body calls stop_actors and waits on its result.
StopCall ==
    /\ pc = "body"
    /\ stopCalls < MaxStopCalls
    /\ stopCalls' = stopCalls + 1
    /\ \E args \in SeqsUpTo({spawned[i].h : i \in DOMAIN spawned}, MaxArgs) :
        DoStop("stop_actors", args, "stop_wait")
    /\ UNCHANGED <<outcome, nspawn, actor, proxyOf, ad, ret, spawnErr>>
    /\ MixinOnly

\* Runtime: the actor acknowledges one stop message, or the send fails.
AckStop(i) ==
    /\ i \in DOMAIN futs
    /\ futs[i] = "pending"
    /\ \E r \in {"ok"} \cup RuntimeErrs :
        /\ futs' = [futs EXCEPT ![i] = r]
        /\ multi' = multi_callback(multi, futs', i)
    /\ UNCHANGED <<pc, outcome, hasSpawned, spawned, nspawn, actor, proxyOf, ad, sent,
                   call, ret, stopCalls, spawnErr, escaped>>
    /\ MixinOnly

\* The body resumes once the combined future of stop_actors has completed.
StopResume ==
    /\ pc = "stop_wait"
    /\ multi.state # "pending"
    /\ IF multi.state = "done"
       THEN pc' = "body" /\ outcome' = outcome /\ escaped' = "none"
       ELSE pc' = "teardown" /\ outcome' = "raise" /\ escaped' = Unhandled(multi.exc)
    /\ UNCHANGED <<hasSpawned, spawned, nspawn, actor, proxyOf, ad, sent, futs, multi,
                   call, ret, stopCalls, spawnErr>>
    /\ MixinOnly

\* The runner cancels the body while it is suspended.
Cancel ==
    /\ pc \in {"spawn_wait", "stop_wait"}
    /\ pc' = "teardown"
    /\ outcome' = "cancelled"
    /\ escaped' = Unhandled("CancelledError")
    /\ UNCHANGED <<hasSpawned, spawned, nspawn, actor, proxyOf, ad, sent, futs, multi,
                   call, ret, stopCalls, spawnErr>>
    /\ MixinOnly

\* The body ends: it passes, fails an assertion of its own, or raises.
BodyEnd ==
    /\ pc = "body"
    /\ pc' = "teardown"
    /\ \E o \in {"pass", "fail", "raise"} : outcome' = o
    /\ UNCHANGED <<hasSpawned, spawned, nspawn, actor, proxyOf, ad, sent, futs, multi,
                   call, ret, stopCalls, spawnErr, escaped>>
    /\ MixinOnly

\* tearDown: return self.stop_actors()
TearDown ==
    /\ pc = "teardown"
    /\ DoStop("tearDown", <<>>, "teardown_wait")
    /\ UNCHANGED <<outcome, nspawn, actor, proxyOf, ad, ret, stopCalls, spawnErr>>
    /\ MixinOnly

\* The result returned by tearDown completes.
TearDownDone ==
    /\ pc = "teardown_wait"
    /\ multi.state # "pending"
    /\ pc' = "done"
    /\ UNCHANGED <<outcome, hasSpawned, spawned, nspawn, actor, proxyOf, ad, sent, futs,
                   multi, call, ret, stopCalls, spawnErr, escaped>>
    /\ MixinOnly

----------------------------------------------------------------------------
\* AsyncAssert

MaxAssertArgs == 2  \* positional arguments of one forwarded assertion
MaxAccesses == 2    \* accesses of the proxy attribute before a call

Vals == {1, 2}

\* The exception classes of the model and their base classes.
ExcKinds == {"BaseException", "Exception", "KeyboardInterrupt", "TypeError",
             "ValueError", "UnicodeError", "AssertionError", "CancelledError"}

Parent(k) ==
    CASE k \in {"Exception", "KeyboardInterrupt"} -> "BaseException"
      [] k \in {"TypeError", "ValueError", "AssertionError", "CancelledError"} -> "Exception"
      [] k = "UnicodeError" -> "ValueError"
      [] OTHER -> "BaseException"

RECURSIVE IsSubclass(_, _)
IsSubclass(k, e) == k = e \/ (k # "BaseException" /\ IsSubclass(Parent(k), e))

\* Exceptions a pending value or an assertion method raises while forwarding.
ForwardErrs == {"ValueError", "AssertionError"}

NoFw == [args |-> <<>>, st |-> <<>>, results |-> <<>>, order |-> <<>>,
         remaining |-> 0, mstate |-> "none", invoked |-> 0, passed |-> <<>>,
         result |-> [kind |-> "none", val |-> 0], exc |-> "none"]

NoAr == [error |-> "none", mode |-> "none", exc |-> "none", raised |-> "unset"]

NoRet == [op |-> "none", status |-> "none", pending |-> FALSE, val |-> 0,
          exc |-> "none", msg |-> "", cancelled |-> FALSE]

\* External collaborator: the combined future multi_async(args) of a tuple of
\* values and pending values. Values pass through, pending values are awaited;
\* the result keeps the positions of the arguments.
multi_args(args, awaited) ==
    [remaining |-> Cardinality({i \in DOMAIN args : args[i].pending}),
     mstate |-> IF \E i \in DOMAIN args : args[i].pending THEN "pending" ELSE "done",
     st |-> [i \in DOMAIN args |-> IF ~args[i].pending THEN "value"
                                   ELSE IF i \in awaited THEN "awaited" ELSE "waiting"],
     results |-> [i \in DOMAIN args |-> IF args[i].pending THEN 0 ELSE args[i].val]]

\* Awaiting the pending arguments one after another: only the first is awaited.
AwaitedFirst(args) ==
    LET P == {i \in DOMAIN args : args[i].pending}
    IN {i \in P : \A j \in P : i <= j}

\* multi_async(args): every pending argument is handed to the combined wait.
Awaited(args) == {i \in DOMAIN args : args[i].pending}

\* getattr(self.test, name)(*args, **kwargs): the arguments as resolved.
ForwardArgs(res) == res

\* No result is treated as pending.
IsAsyncNever(r) == FALSE

\* is_async(result)
IsAsync(r) == r.kind = "pending"

\* A bare except clause.
ExceptAnything(k) == TRUE

\* except error:
ExceptError(error, k) == IsSubclass(k, error)

\* except Exception:
ExceptException(k) == IsSubclass(k, "Exception")

\* A proxy kept on the instance: constructed on first access, returned again
\* by every later one.
DescriptorGetCached(d, onInstance) ==
    IF ~onInstance THEN [d EXCEPT !.got = Append(d.got, 0)]
    ELSE IF d.created = 0 THEN [created |-> 1, got |-> Append(d.got, 1)]
    ELSE [d EXCEPT !.got = Append(d.got, 1)]

\* __get__: AsyncAssert(instance) for an access on an instance, the
\* descriptor itself (object 0) for an access on the class.
DescriptorGet(d, onInstance) ==
    IF onInstance
    THEN [created |-> d.created + 1, got |-> Append(d.got, d.created + 1)]
    ELSE [d EXCEPT !.got = Append(d.got, 0)]

AssertInit ==
    /\ apc = "idle"
    /\ fw = NoFw
    /\ ar = NoAr
    /\ aret = NoRet
    /\ desc = [created |-> 0, got |-> <<>>]

\* The proxy attribute is read, on the test instance or on its class.
ProxyAccess ==
    /\ apc = "idle"
    /\ Len(desc.got) < MaxAccesses
    /\ \E onInstance \in BOOLEAN : desc' = DescriptorGet(desc, onInstance)
    /\ UNCHANGED <<apc, fw, ar, aret>>
    /\ AssertOnly

\* A forwarded assertion is called: its arguments go to multi_async.
ForwardCall ==
    /\ apc = "idle"
    /\ \E args \in SeqsUpTo([pending : BOOLEAN, val : Vals], MaxAssertArgs) :
        LET m == multi_args(args, Awaited(args))
        IN fw' = [fw EXCEPT !.args = args, !.st = m.st, !.results = m.results,
                            !.remaining = m.remaining, !.mstate = m.mstate]
    /\ apc' = "args_wait"
    /\ aret' = [aret EXCEPT !.op = "forward"]
    /\ UNCHANGED ar
    /\ UNCHANGED desc
    /\ AssertOnly

\* Runtime: an awaited argument resolves to its value, or raises.
ArgResolve(i) ==
    /\ apc = "args_wait"
    /\ i \in DOMAIN fw.st
    /\ fw.st[i] = "awaited"
    /\ \/ fw' = [fw EXCEPT !.st[i] = "done",
                           !.results[i] = fw.args[i].val,
                           !.order = Append(fw.order, i),
                           !.remaining = fw.remaining - 1,
                           !.mstate = IF fw.remaining - 1 > 0 THEN "pending"
                                      ELSE IF fw.exc # "none" THEN "error" ELSE "done"]
       \/ \E k \in ForwardErrs :
            fw' = [fw EXCEPT !.st[i] = "failed",
                             !.order = Append(fw.order, i),
                             !.remaining = fw.remaining - 1,
                             !.exc = IF fw.exc = "none" THEN k ELSE fw.exc,
                             !.mstate = IF fw.remaining - 1 > 0 THEN "pending" ELSE "error"]
    /\ UNCHANGED <<apc, ar, aret>>
    /\ UNCHANGED desc
    /\ AssertOnly

\* The arguments are resolved: the assertion method is invoked with them; a
\* pending result is awaited.
ForwardInvoke ==
    /\ apc = "args_wait"
    /\ fw.mstate = "done"
    /\ \E kind \in {"value", "pending", "raise"}, v \in Vals, k \in ForwardErrs :
        LET r == [kind |-> kind, val |-> v]
        IN /\ fw' = [fw EXCEPT !.invoked = fw.invoked + 1,
                               !.passed = ForwardArgs(fw.results),
                               !.result = r,
                               !.exc = IF kind = "raise" THEN k ELSE "none"]
           /\ IF kind = "raise"
              THEN /\ apc' = "finished"
                   /\ aret' = [aret EXCEPT !.status = "raised", !.exc = Unhandled(k)]
              ELSE IF IsAsync(r)
              THEN /\ apc' = "result_wait"
                   /\ aret' = aret
              ELSE /\ apc' = "finished"
                   /\ aret' = [aret EXCEPT !.status = "returned",
                                           !.pending = (kind = "pending"),
                                           !.val = IF kind = "pending" THEN 0 ELSE v]
    /\ UNCHANGED ar
    /\ UNCHANGED desc
    /\ AssertOnly

\* An argument raised: the exception leaves the proxy call.
ForwardArgsRaise ==
    /\ apc = "args_wait"
    /\ fw.mstate = "error"
    /\ apc' = "finished"
    /\ aret' = [aret EXCEPT !.status = "raised", !.exc = Unhandled(fw.exc)]
    /\ UNCHANGED <<fw, ar>>
    /\ UNCHANGED desc
    /\ AssertOnly

\* Runtime: the pending result of the assertion method resolves, or raises.
ResultResolve ==
    /\ apc = "result_wait"
    /\ apc' = "finished"
    /\ \/ /\ aret' = [aret EXCEPT !.status = "returned", !.val = fw.result.val]
          /\ fw' = fw
       \/ \E k \in ForwardErrs :
            /\ aret' = [aret EXCEPT !.status = "raised", !.exc = Unhandled(k)]
            /\ fw' = [fw EXCEPT !.exc = k]
    /\ UNCHANGED ar
    /\ UNCHANGED desc
    /\ AssertOnly

\* The try statement of assertRaises, given what 'yield from callable(...)'
\* raised (none: nothing).
RaisesOutcome(base, error, k) ==
    IF k = "none"
    THEN [base EXCEPT !.status = "raised", !.exc = "failureException", !.msg = "not raised"]
    ELSE IF ExceptError(error, k)
    THEN [base EXCEPT !.status = "returned"]
    ELSE IF ExceptException(k)
    THEN [base EXCEPT !.status = "raised", !.exc = "failureException", !.msg = "not raised"]
    ELSE [base EXCEPT !.status = "raised", !.exc = k]

\* assertRaises is called: the callable raises at once, returns something
\* that 'yield from' cannot delegate to (a TypeError), or returns a pending
\* result that is awaited.
RaisesCall ==
    /\ apc = "idle"
    /\ \E error \in ExcKinds,
          mode \in {"raise_sync", "raise_async", "complete", "not_awaitable"},
          k \in ExcKinds :
        /\ (mode \in {"complete", "not_awaitable"} => k = "BaseException")
        /\ LET exc == IF mode \in {"raise_sync", "raise_async"} THEN k ELSE "none"
               now == IF mode = "raise_sync" THEN k ELSE "TypeError"
               op == [aret EXCEPT !.op = "assertRaises"]
           IN IF mode \in {"raise_sync", "not_awaitable"}
              THEN /\ ar' = [error |-> error, mode |-> mode, exc |-> exc, raised |-> now]
                   /\ aret' = RaisesOutcome(op, error, now)
                   /\ apc' = "finished"
              ELSE /\ ar' = [error |-> error, mode |-> mode, exc |-> exc, raised |-> "unset"]
                   /\ aret' = op
                   /\ apc' = "ar_wait"
    /\ UNCHANGED fw
    /\ UNCHANGED desc
    /\ AssertOnly

\* Runtime: the awaited result of the callable completes, or raises.
RaisesResolve ==
    /\ apc = "ar_wait"
    /\ apc' = "finished"
    /\ ar' = [ar EXCEPT !.raised = ar.exc]
    /\ aret' = RaisesOutcome(aret, ar.error, ar.exc)
    /\ UNCHANGED fw
    /\ UNCHANGED desc
    /\ AssertOnly

\* The runner cancels the test while the proxy call is suspended: the
\* cancellation is raised at the 'yield from' the call is waiting in.
AssertCancel ==
    /\ apc \in {"args_wait", "result_wait", "ar_wait"}
    /\ apc' = "finished"
    /\ IF apc = "ar_wait"
       THEN /\ ar' = [ar EXCEPT !.raised = "CancelledError"]
            /\ aret' = RaisesOutcome([aret EXCEPT !.cancelled = TRUE], ar.error,
                                     "CancelledError")
            /\ fw' = fw
       ELSE /\ ar' = ar
            /\ aret' = [aret EXCEPT !.cancelled = TRUE, !.status = "raised",
                                    !.exc = Unhandled("CancelledError")]
            /\ fw' = [fw EXCEPT !.exc = "CancelledError"]
    /\ UNCHANGED desc
    /\ AssertOnly

----------------------------------------------------------------------------
\* check_server

MaxAddrLen == 5     \* characters of a configured address

Chars == {"r", ":", "/", "x"}

\* The server name the probe is called with.
ServerName == <<"r">>

\* '%s://' % name
Scheme(name) == name \o <<":", "/", "/">>

\* sub in s, for strings
Contains(sub, s) ==
    \E i \in 0..(Len(s) - Len(sub)) : SubSeq(s, i + 1, i + Len(sub)) = sub

\* if ('%s://' % name) not in addr: addr = '%s://%s' % (name, addr)
Normalise(name, addr) ==
    IF ~Contains(Scheme(name), addr) THEN Scheme(name) \o addr ELSE addr

\* run_until_complete(sync_store.ping()); return True
PingAnswer(r) == "True"

NoEv == [loop |-> "none", store |-> "none", ping |-> "none"]

NoRes == [returned |-> "none", escaped |-> "none"]

ProbeIdle ==
    /\ ppc = "start"
    /\ pin = [actor |-> TRUE, has |-> FALSE, addr |-> <<>>]
    /\ purl = <<>>
    /\ pev = NoEv
    /\ pres = NoRes

ProbeInit ==
    /\ ppc = "start"
    /\ pin \in {[actor |-> a, has |-> h, addr |-> s] :
                    a \in BOOLEAN, h \in BOOLEAN, s \in SeqsUpTo(Chars, MaxAddrLen)}
    /\ pin.has \/ pin.addr = <<>>
    /\ purl = <<>>
    /\ pev = NoEv
    /\ pres = NoRes

\* cfg = get_actor().cfg; addr = cfg.get('<name>_server'); the scheme prefix.
ProbeLookup ==
    /\ ppc = "start"
    /\ IF ~pin.actor
       THEN /\ ppc' = "finished"
            /\ pres' = [pres EXCEPT !.escaped = "AttributeError"]
            /\ purl' = purl
       ELSE IF ~pin.has \/ pin.addr = <<>>
       THEN /\ ppc' = "finished"
            /\ pres' = [pres EXCEPT !.returned = "False"]
            /\ purl' = purl
       ELSE /\ ppc' = "create"
            /\ pres' = pres
            /\ purl' = Normalise(ServerName, pin.addr)
    /\ UNCHANGED <<pin, pev>>
    /\ ProbeOnly

\* sync_store = create_store(addr, loop=new_event_loop()), inside
\* try ... except ImproperlyConfigured
ProbeCreate ==
    /\ ppc = "create"
    /\ \E loop \in {"ok", "RuntimeError"},
          store \in {"ok", "ImproperlyConfigured", "ValueError"} :
        IF loop # "ok"
        THEN /\ pev' = [pev EXCEPT !.loop = loop]
             /\ pres' = [pres EXCEPT !.escaped = loop]
             /\ ppc' = "finished"
        ELSE /\ pev' = [pev EXCEPT !.loop = loop, !.store = store]
             /\ IF store = "ok"
                THEN ppc' = "ping" /\ pres' = pres
                ELSE IF store = "ImproperlyConfigured"
                THEN ppc' = "finished" /\ pres' = [pres EXCEPT !.returned = "False"]
                ELSE ppc' = "finished" /\ pres' = [pres EXCEPT !.escaped = store]
    /\ UNCHANGED <<pin, purl>>
    /\ ProbeOnly

\* sync_store._loop.run_until_complete(sync_store.ping()), inside
\* try ... except Exception
ProbePing ==
    /\ ppc = "ping"
    /\ \E r \in {"true", "false", "Exception", "KeyboardInterrupt"} :
        /\ pev' = [pev EXCEPT !.ping = r]
        /\ IF r \in {"true", "false"}
           THEN pres' = [pres EXCEPT !.returned = PingAnswer(r)]
           ELSE IF ExceptException(r)
           THEN pres' = [pres EXCEPT !.returned = "False"]
           ELSE pres' = [pres EXCEPT !.escaped = r]
    /\ ppc' = "finished"
    /\ UNCHANGED <<pin, purl>>
    /\ ProbeOnly

----------------------------------------------------------------------------
\* test_timeout, get_test_timeout, dont_run_with_thread

MaxTimeout == 3     \* the largest timeout value
MaxDecorations == 2 \* applications of test_timeout to one test object

Timeouts == 0..MaxTimeout

Modes == {"thread", "process", "coroutine"}

SkipReason == "Run only when concurrency is process"

Max(a, b) == IF a >= b THEN a ELSE b

\* The largest element of a non-empty set of numbers.
MaxOf(S) == CHOOSE m \in S : \A x \in S : x <= m

Range(f) == {f[i] : i \in DOMAIN f}

\* A decorator that keeps the largest timeout applied so far.
test_timeout_keep_max(o, t) ==
    [o EXCEPT !.hasTimeout = TRUE,
              !.timeout = IF o.hasTimeout THEN Max(o.timeout, t) ELSE t]

\* test_timeout(timeout)(f): f._test_timeout = self.timeout
test_timeout(o, t) == [o EXCEPT !.hasTimeout = TRUE, !.timeout = t]

\* The override alone decides when there is one.
get_test_timeout_override_only(o, timeout) ==
    IF o.hasTimeout THEN o.timeout ELSE timeout

\* get_test_timeout(o, timeout): max(getattr(o, '_test_timeout', 0), timeout)
get_test_timeout(o, timeout) ==
    LET val == IF o.hasTimeout THEN o.timeout ELSE 0
    IN Max(val, timeout)

\* unittest.skipUnless(condition, reason)(o)
skipUnless(cond, reason, o) ==
    IF cond THEN o ELSE [o EXCEPT !.skip = TRUE, !.why = reason]

\* The test marked to be skipped when the mode is the required one.
dont_run_with_thread_inverted(o, e) ==
    IF e.actor
    THEN skipUnless(e.mode # "process", SkipReason, o)
    ELSE o

\* dont_run_with_thread(obj)
dont_run_with_thread(o, e) ==
    IF e.actor
    THEN skipUnless(e.mode = "process", SkipReason, o)
    ELSE o

NoUnit == [hasTimeout |-> FALSE, timeout |-> 0, skip |-> FALSE, why |-> ""]

NoQuery == [asked |-> FALSE, baseline |-> 0, result |-> 0, applied |-> <<>>,
            before |-> NoUnit, after |-> NoUnit]

NoSkip == [applied |-> FALSE, before |-> NoUnit, after |-> NoUnit]

MetaIdle ==
    /\ unit = NoUnit
    /\ applied = <<>>
    /\ env = [actor |-> FALSE, mode |-> "none"]
    /\ tq = NoQuery
    /\ sk = NoSkip

\* A test object, skipped by another decorator or not, and the actor context
\* of the process at decoration time.
MetaInit ==
    /\ unit \in {NoUnit, [NoUnit EXCEPT !.skip = TRUE, !.why = "other"]}
    /\ applied = <<>>
    /\ env \in {[actor |-> FALSE, mode |-> "none"]}
                 \cup {[actor |-> TRUE, mode |-> m] : m \in Modes}
    /\ tq = NoQuery
    /\ sk = NoSkip

\* @test_timeout(t) is applied to the test object.
ApplyTimeout ==
    /\ Len(applied) < MaxDecorations
    /\ \E t \in Timeouts :
        /\ unit' = test_timeout(unit, t)
        /\ applied' = Append(applied, t)
    /\ UNCHANGED <<env, tq, sk>>
    /\ MetaOnly

\* The runner asks for the timeout of the test object.
GetTimeout ==
    /\ unit' = unit
    /\ \E b \in Timeouts :
        tq' = [asked |-> TRUE, baseline |-> b, result |-> get_test_timeout(unit, b),
               applied |-> applied, before |-> unit, after |-> unit']
    /\ UNCHANGED <<applied, env, sk>>
    /\ MetaOnly

\* @dont_run_with_thread is applied to the test object.
SkipDecorate ==
    /\ ~sk.applied
    /\ unit' = dont_run_with_thread(unit, env)
    /\ sk' = [applied |-> TRUE, before |-> unit, after |-> unit']
    /\ UNCHANGED <<applied, env, tq>>
    /\ MetaOnly

----------------------------------------------------------------------------
\* The specifications.

Init == MixinInit /\ AssertInit /\ ProbeIdle /\ MetaIdle

Next ==
    \/ SpawnCall
    \/ \E h \in Handles : SpawnResolve(h)
    \/ \E h \in Handles : SpawnFail(h)
    \/ SpawnResume
    \/ SpawnRaise
    \/ StopCall
    \/ \E i \in 1..(MaxActors + MaxArgs) : AckStop(i)
    \/ StopResume
    \/ Cancel
    \/ BodyEnd
    \/ TearDown
    \/ TearDownDone

\* One test of an ActorTestMixin instance.
Spec == Init /\ [][Next]_vars

NextAssert ==
    \/ ProxyAccess
    \/ ForwardCall
    \/ \E i \in 1..MaxAssertArgs : ArgResolve(i)
    \/ ForwardInvoke
    \/ ForwardArgsRaise
    \/ ResultResolve
    \/ RaisesCall
    \/ RaisesResolve
    \/ AssertCancel

\* One call through the AsyncAssert proxy.
SpecAssert == Init /\ [][NextAssert]_vars

\* A test that uses the mixin's operations, or one that makes a call on the
\* assertion proxy: each operation runs from the state the other part of the
\* harness was constructed in.
NextHarness ==
    \/ AssertInit /\ SpawnCall
    \/ \E h \in Handles : AssertInit /\ SpawnResolve(h)
    \/ \E h \in Handles : AssertInit /\ SpawnFail(h)
    \/ AssertInit /\ SpawnResume
    \/ AssertInit /\ SpawnRaise
    \/ AssertInit /\ StopCall
    \/ \E i \in 1..(MaxActors + MaxArgs) : AssertInit /\ AckStop(i)
    \/ AssertInit /\ StopResume
    \/ AssertInit /\ Cancel
    \/ AssertInit /\ BodyEnd
    \/ AssertInit /\ TearDown
    \/ AssertInit /\ TearDownDone
    \/ MixinInit /\ ProxyAccess
    \/ MixinInit /\ ForwardCall
    \/ \E i \in 1..MaxAssertArgs : MixinInit /\ ArgResolve(i)
    \/ MixinInit /\ ForwardInvoke
    \/ MixinInit /\ ForwardArgsRaise
    \/ MixinInit /\ ResultResolve
    \/ MixinInit /\ RaisesCall
    \/ MixinInit /\ RaisesResolve
    \/ MixinInit /\ AssertCancel

SpecHarness == Init /\ [][NextHarness]_vars

InitProbe == MixinInit /\ AssertInit /\ ProbeInit /\ MetaIdle

NextProbe ==
    \/ ProbeLookup
    \/ ProbeCreate
    \/ ProbePing

\* One call of check_server.
SpecProbe == InitProbe /\ [][NextProbe]_vars

InitMeta == MixinInit /\ AssertInit /\ ProbeIdle /\ MetaInit

NextMeta ==
    \/ ApplyTimeout
    \/ GetTimeout
    \/ SkipDecorate

\* The decorators of one test object and the runner's timeout queries.
SpecMeta == InitMeta /\ [][NextMeta]_vars

----------------------------------------------------------------------------
\* Claims about the actor lifecycle mixin, checked under Spec.

\* C1: when the result of tearDown has completed, every actor whose creation
\* spawn_actor requested from the runtime has been sent 'stop', whatever the
\* outcome of the test body.
C1_EveryRequestedActorStopped ==
    pc = "done" => \A h \in Handles : actor[h] # "none" => sent[h] >= 1

\* C2: tearDown is stop_actors() with no arguments, and when the test is over
\* each actor spawned during it has been asked to stop exactly once.
C2_StoppedExactlyOnce ==
    /\ call.op = "tearDown" => call.args = <<>>
    /\ pc = "done" => \A i \in DOMAIN spawned : sent[spawned[i].h] = 1

\* C3: while the caller waits on the result of stop_actors, 'stop' has been
\* dispatched to every target of the call, and the combined result is
\* complete only when every individual stop has completed.
C3_StopNotSerialized ==
    pc \in {"stop_wait", "teardown_wait"} =>
        /\ Len(futs) = Len(call.all)
        /\ \A h \in Handles : sent[h] = call.sent0[h] + Count(h, call.all)
        /\ multi.state # "pending" =>
               \A i \in 1..Len(call.all) : i \in DOMAIN futs /\ futs[i] # "pending"

\* Two targets, the second acknowledged first, the combined result pending.
C3_Witness ==
    /\ pc = "teardown_wait"
    /\ Len(call.all) = 2
    /\ futs[1] = "pending" /\ futs[2] = "ok"
    /\ multi.state = "pending"

\* C4: when spawn_actor has returned a proxy, the tracked collection is the
\* collection before the call with that proxy appended, and the proxy's
\* identifier is the identifier of the spawn request.
C4_SpawnTracksOneMore ==
    (call.op = "spawn" /\ pc = "body" /\ ret.h = ad.h) =>
        /\ hasSpawned
        /\ Len(spawned) = Len(call.before) + 1
        /\ spawned = Append(call.before, ret)
        /\ ret.aid = ad.aid /\ ret.aid # 0

\* A second successful spawn_actor, with one proxy tracked before it.
C4_Witness ==
    call.op = "spawn" /\ pc = "body" /\ ret.h = ad.h /\ Len(call.before) = 1

\* C17 as stated: a spawn_actor call aborted by an assertion failure leaves
\* the tracked collection as it was before the call.
C17_AbortLeavesTrackingUnchanged ==
    (call.op = "spawn" /\ escaped = "failureException") =>
        all_spawned = call.before

\* C17, amended: a call aborted by the assertions before the suspension
\* point, by a failed spawn or by a cancellation leaves the tracked
\* collection as it was; a call aborted by an assertion on the resolved proxy
\* has already appended that proxy, as its last record.
C17_TrackedBeforeProxyAssertions ==
    /\ (call.op = "spawn" /\ escaped = "failureException" /\ ~PreAsserts(ad)) =>
           (all_spawned = call.before /\ actor[ad.h] # "none")
    /\ (call.op = "spawn" /\ escaped = "failureException" /\ PreAsserts(ad)) =>
           /\ ~PostAsserts(proxyOf[ad.h], ad)
           /\ hasSpawned
           /\ spawned = Append(call.before, proxyOf[ad.h])
    /\ (call.op = "spawn" /\ escaped \in RuntimeErrs \cup {"CancelledError"}) =>
           all_spawned = call.before
    /\ (call.op = "spawn" /\ pc = "spawn_wait") => all_spawned = call.before

\* The second spawn_actor call of a test was aborted by an assertion on the
\* resolved proxy, which is tracked after the first one.
C17_Witness ==
    /\ call.op = "spawn" /\ escaped = "failureException" /\ PreAsserts(ad)
    /\ Len(call.before) = 1
    /\ Len(spawned) = 2 /\ spawned[2] = proxyOf[ad.h]
    /\ pc = "teardown"

\* C19: every step keeps the tracked collection as a prefix of its next
\* value; the collection grows only when spawn_actor resumes from its wait
\* with a started actor, by that actor's proxy; and a stop_actors call with
\* explicit handles sends 'stop' to those handles, once per occurrence, and
\* to no other.
C19_TrackedAppendOnly ==
    [][/\ Len(all_spawned') >= Len(all_spawned)
       /\ SubSeq(all_spawned', 1, Len(all_spawned)) = all_spawned
       /\ all_spawned' # all_spawned =>
              /\ pc = "spawn_wait" /\ actor[ad.h] = "alive"
              /\ call.op = "spawn"
              /\ all_spawned' = Append(all_spawned, proxyOf[ad.h])
       /\ (call' # call /\ call'.op = "stop_actors" /\ Len(call'.args) > 0) =>
              /\ \A h \in Handles : sent'[h] = sent[h] + Count(h, call'.args)
              /\ all_spawned' = all_spawned
       /\ (call' # call /\ call'.op \in {"stop_actors", "tearDown"}) =>
              all_spawned' = all_spawned
      ]_vars

\* stop_actors was called with the first of two tracked actors: it alone was
\* sent 'stop' and both are still tracked.
C19_Witness ==
    /\ pc = "stop_wait" /\ call.op = "stop_actors" /\ call.args = <<1>>
    /\ Len(spawned) = 2
    /\ sent[1] = 1 /\ sent[2] = 0

\* C5: stop_actors() with no arguments and nothing tracked sends no stop
\* message and returns a combined result that is already complete, also when
\* the call is the first use of the tracked collection.
C5_StopNothingIsNoop ==
    (call.op \in {"stop_actors", "tearDown"} /\ call.args = <<>> /\ call.before = <<>>) =>
        /\ call.nsent = 0
        /\ call.complete
        /\ pc \in {"stop_wait", "teardown_wait"} =>
               (sent = call.sent0 /\ futs = <<>> /\ multi.state = "done")

\* The body calls stop_actors() before anything used the tracked collection.
C5_Witness ==
    /\ call.op = "stop_actors" /\ call.args = <<>> /\ call.lazy
    /\ pc = "stop_wait" /\ multi.state = "done"

----------------------------------------------------------------------------
\* Claims about the assertion proxy, checked under SpecAssert.

\* C8: a forwarded assertion awaits all its pending arguments together (none
\* is left unawaited while the call waits, so none starts after another has
\* completed), and the assertion method receives the resolved values in the
\* positions of the call, whatever the order of completion.
C8_ArgsConcurrentPositional ==
    /\ apc = "args_wait" =>
           \A i \in DOMAIN fw.args : fw.args[i].pending => fw.st[i] # "waiting"
    /\ \A i, j \in DOMAIN fw.st : ~(fw.st[i] = "done" /\ fw.st[j] = "waiting")
    /\ fw.invoked >= 1 => fw.passed = [i \in DOMAIN fw.args |-> fw.args[i].val]

\* Two pending arguments of different values, the second completed first.
C8_Witness ==
    /\ fw.invoked = 1
    /\ Len(fw.args) = 2
    /\ fw.args[1].pending /\ fw.args[2].pending
    /\ fw.args[1].val # fw.args[2].val
    /\ fw.order = <<2, 1>>

\* C9: one forwarded call invokes the assertion method at most once and only
\* with every argument resolved; a call that returns has invoked it exactly
\* once, does not return while the method's result is pending, and returns
\* the resolved result, never a pending value.
C9_InvokedOnceResultAwaited ==
    /\ fw.invoked <= 1
    /\ fw.invoked = 1 => \A i \in DOMAIN fw.st : fw.st[i] \in {"value", "done"}
    /\ apc = "result_wait" => (fw.invoked = 1 /\ aret.status = "none")
    /\ (apc = "finished" /\ aret.op = "forward" /\ fw.invoked = 0) =>
           (aret.status = "raised"
            /\ (aret.cancelled \/ \E i \in DOMAIN fw.st : fw.st[i] = "failed"))
    /\ (aret.op = "forward" /\ aret.status = "returned") =>
           /\ fw.invoked = 1
           /\ ~aret.pending
           /\ fw.result.kind \in {"value", "pending"}
           /\ aret.val = fw.result.val

\* A call with two arguments whose method returned a pending result.
C9_Witness ==
    /\ aret.op = "forward" /\ aret.status = "returned"
    /\ Len(fw.args) = 2 /\ fw.args[2].pending
    /\ fw.result.kind = "pending"

\* C10 as stated: assertRaises returns silently exactly when the expected
\* error (or a subtype) was raised, and in every other case raises the
\* failure exception with the 'not raised' message.
C10_ThreeOutcomes ==
    (apc = "finished" /\ aret.op = "assertRaises") =>
        /\ aret.status = "returned" <=>
               (ar.raised # "none" /\ IsSubclass(ar.raised, ar.error))
        /\ aret.status # "returned" =>
               (aret.status = "raised" /\ aret.exc = "failureException"
                /\ aret.msg = "not raised")

\* C10 amended: assertRaises returns silently exactly when the expected error
\* (or a subtype) was raised; it raises the 'not raised' failure when nothing
\* was raised or when another exception derived from Exception was raised;
\* another exception not derived from Exception leaves the call unchanged.
C10_FourOutcomes ==
    (apc = "finished" /\ aret.op = "assertRaises") =>
        LET k == ar.raised
            expected == k # "none" /\ IsSubclass(k, ar.error)
        IN /\ aret.status = "returned" <=> expected
           /\ (k = "none" \/ (~expected /\ IsSubclass(k, "Exception"))) =>
                  (aret.status = "raised" /\ aret.exc = "failureException"
                   /\ aret.msg = "not raised")
           /\ (k # "none" /\ ~expected /\ ~IsSubclass(k, "Exception")) =>
                  (aret.status = "raised" /\ aret.exc = k /\ aret.msg = "")

\* The awaited result of the callable raised KeyboardInterrupt, ValueError
\* was expected.
C10_Witness ==
    /\ apc = "finished" /\ aret.op = "assertRaises"
    /\ ar.mode = "raise_async"
    /\ ar.error = "ValueError" /\ ar.raised = "KeyboardInterrupt"
    /\ aret.status = "raised" /\ aret.exc = "KeyboardInterrupt"

\* C11 as stated: at most one proxy object is created for an instance, and
\* every access on the instance returns that same object.
C11_OneProxyPerInstance ==
    /\ desc.created <= 1
    /\ \A i, j \in DOMAIN desc.got :
           (desc.got[i] # 0 /\ desc.got[j] # 0) => desc.got[i] = desc.got[j]

\* C11 amended: every access on the instance constructs a new proxy object,
\* so the objects created are as many as the accesses on the instance and no
\* two accesses return the same object; an access on the class creates none.
C11_FreshProxyPerAccess ==
    /\ desc.created = Cardinality({i \in DOMAIN desc.got : desc.got[i] # 0})
    /\ \A i, j \in DOMAIN desc.got :
           (i # j /\ desc.got[i] # 0 /\ desc.got[j] # 0) => desc.got[i] # desc.got[j]
    /\ \A i \in DOMAIN desc.got : desc.got[i] <= desc.created

\* Two accesses on the instance returned two objects.
C11_Witness == desc.got = <<1, 2>> /\ desc.created = 2

\* C18: when the callable given to assertRaises returns a value that is not
\* awaitable and raises nothing, the call fails with the 'not raised' failure
\* whatever the expected error is.
C18_NotAwaitableIsNotRaised ==
    (apc = "finished" /\ aret.op = "assertRaises" /\ ar.mode = "not_awaitable") =>
        /\ aret.status = "raised"
        /\ aret.exc = "failureException"
        /\ aret.msg = "not raised"

\* C14: a cancellation delivered while a proxy call is suspended leaves the
\* call as that cancellation: it is neither swallowed nor turned into another
\* error.
C14_CancellationPropagates ==
    aret.cancelled => (aret.status = "raised" /\ aret.exc = "CancelledError")

----------------------------------------------------------------------------
\* Claims about the reachability probe, checked under SpecProbe.

\* C6: check_server always returns a boolean and no exception leaves it.
C6_NeverRaisesAlwaysBoolean ==
    ppc = "finished" => (pres.escaped = "none" /\ pres.returned \in {"True", "False"})

\* s begins with sub
StartsWith(sub, s) == Len(s) >= Len(sub) /\ SubSeq(s, 1, Len(sub)) = sub

\* C20: the address handed to the client factory is the configured address
\* when that address starts with '<name>://', and '<name>://' followed by the
\* configured address in every other case, also when '<name>://' occurs in
\* the address after its first character.
C20_PrefixedUnlessSchemeAtStart ==
    (ppc # "start" /\ purl # <<>>) =>
        purl = IF StartsWith(Scheme(ServerName), pin.addr)
               THEN pin.addr
               ELSE Scheme(ServerName) \o pin.addr

\* C7: when check_server returns, it returns False if the address is unset,
\* if the address is refused as misconfigured or if the ping fails, and it
\* returns True only if the ping succeeded with a positive result.
C7_TrueOnlyWhenPingSucceeds ==
    (ppc = "finished" /\ pres.returned # "none") =>
        /\ (~pin.has \/ pin.addr = <<>>) => pres.returned = "False"
        /\ pev.store = "ImproperlyConfigured" => pres.returned = "False"
        /\ pev.ping = "Exception" => pres.returned = "False"
        /\ pres.returned = "True" => pev.ping = "true"

----------------------------------------------------------------------------
\* Claims about the execution-control annotations and the skip decorator,
\* checked under SpecMeta.

\* C12 as stated: the timeout of a unit is the maximum of every override
\* applied to it and the baseline, and the first override applied stays.
C12_MaxOfAllOverrides ==
    /\ tq.asked => tq.result = MaxOf(Range(tq.applied) \cup {tq.baseline})
    /\ Len(applied) >= 1 => unit.timeout = applied[1]

\* C12 amended: the timeout of a unit is the maximum of the override applied
\* last and the baseline; a later application replaces the earlier override.
C12_MaxOfLastOverride ==
    /\ tq.asked =>
           tq.result = Max(IF tq.applied = <<>> THEN 0 ELSE tq.applied[Len(tq.applied)],
                           tq.baseline)
    /\ Len(applied) >= 1 => (unit.hasTimeout /\ unit.timeout = applied[Len(applied)])

\* Overrides 3 then 1 applied, baseline 2: the timeout is 2, not 3.
C12_Witness ==
    tq.asked /\ tq.applied = <<3, 1>> /\ tq.baseline = 2 /\ tq.result = 2

\* C13: get_test_timeout returns the larger of the override and the baseline,
\* the baseline when the unit has no override, and leaves the unit as it was.
C13_EffectiveTimeout ==
    tq.asked =>
        /\ tq.before.hasTimeout =>
               (/\ tq.result >= tq.before.timeout /\ tq.result >= tq.baseline
                /\ tq.result \in {tq.before.timeout, tq.baseline})
        /\ ~tq.before.hasTimeout => tq.result = tq.baseline
        /\ tq.after = tq.before

\* A unit with override 3 asked with baseline 1: the result is 3.
C13_Witness ==
    /\ tq.asked /\ tq.before.hasTimeout
    /\ tq.before.timeout = 3 /\ tq.baseline = 1 /\ tq.result = 3

\* C15: an exception the runtime raises at the wait of spawn_actor or of
\* stop_actors, and an exception raised while an assertion is forwarded (by
\* an argument, by the assertion method or by its awaited result), leaves the
\* call as that same exception; one spawn_actor call makes one spawn request
\* and one stop_actors call sends no more than one stop per listed target.
C15_PropagatesUnchangedNoRetry ==
    /\ (call.op = "spawn" /\ outcome = "raise" /\ escaped # "none") =>
           (escaped = spawnErr[ad.h] /\ escaped \in RuntimeErrs)
    /\ (call.op \in {"stop_actors", "tearDown"} /\ outcome = "raise"
        /\ escaped # "none") =>
           /\ escaped \in RuntimeErrs
           /\ escaped = multi.exc
           /\ \E i \in DOMAIN futs : futs[i] = escaped
    /\ (pc = "teardown" /\ call.op = "spawn" /\ actor[ad.h] = "failed"
        /\ outcome = "raise") => escaped = spawnErr[ad.h]
    /\ call.op = "spawn" => nspawn = call.req0 + 1
    /\ call.op \in {"stop_actors", "tearDown"} =>
           /\ nspawn = call.req0
           /\ call.nsent <= Len(call.all)
           /\ \A h \in Handles : sent[h] - call.sent0[h] <= Count(h, call.all)
    /\ (aret.op = "forward" /\ aret.status = "raised") =>
           (fw.exc # "none" /\ aret.exc = fw.exc /\ fw.invoked <= 1)
    /\ (aret.op = "forward" /\ apc = "finished" /\ fw.exc # "none") =>
           aret.status = "raised"

\* stop_actors on two targets: the first stop succeeded, the second failed
\* with OSError, and OSError left the call.
C15_Witness ==
    /\ call.op = "stop_actors" /\ pc = "teardown" /\ outcome = "raise"
    /\ Len(futs) = 2 /\ futs[1] = "ok" /\ futs[2] = "OSError"
    /\ escaped = "OSError"

\* C16: without an actor context the decorator returns the test as it was;
\* with one, it marks the test skipped, with a reason, exactly when the
\* concurrency mode is not 'process', and returns it as it was otherwise.
C16_SkipUnlessProcess ==
    sk.applied =>
        /\ ~env.actor => sk.after = sk.before
        /\ (env.actor /\ env.mode = "process") => sk.after = sk.before
        /\ (env.actor /\ env.mode # "process") =>
               sk.after = [sk.before EXCEPT !.skip = TRUE, !.why = SkipReason]

\* A test not skipped before, decorated in a process running in thread mode.
C16_Witness ==
    /\ sk.applied /\ env.actor /\ env.mode = "thread"
    /\ ~sk.before.skip /\ sk.after.skip

====
